---- MODULE Spec2Model ----
(***************************************************************************)
(* parse_wiki_str of maid_in_abyss/exts/mihoyo/wiki/interface/display.py:  *)
(* the overlay list list_str, the write primitive replace, the four passes *)
(* (bolds and italics, tags, wikilinks, templates) and the final join.     *)
(*                                                                         *)
(* Offsets are Python's (0-based); a sequence cell k+1 holds offset k.     *)
(* A string is a sequence of one-character strings.  wikitextparser is a   *)
(* third-party library: what it reports for an input is drawn nondeter-    *)
(* ministically in Init from the well-nested construct sets over the input.*)
(***************************************************************************)
EXTENDS Integers, Sequences, FiniteSets

\* Longest input string.
MaxLen == 6

\* Widest delimiter region of a construct.
MaxDelim == 2

\* Most constructs wikitextparser reports for one input (all four kinds together).
MaxConstructs == 3

VARIABLES
    string,     \* the argument of parse_wiki_str
    wt,         \* what wikitextparser.parse(string) reports: four lists
    list_str,   \* the overlay list
    pc,         \* "parse", "emphasis", "tags", "links", "templates", "compact", "done", "error"
    i,          \* position of the running for loop in its list (1-based)
    result,     \* the returned string, once pc = "done"
    log,        \* history: the last loop iteration, its list before and its replace calls
    covered     \* history: the offsets named by the span of some replace call so far

vars == <<string, wt, list_str, pc, i, result, log, covered>>

Min(a, b) == IF a < b THEN a ELSE b
Max(a, b) == IF a > b THEN a ELSE b

RECURSIVE Flatten(_)
Flatten(ss) == IF ss = <<>> THEN <<>> ELSE Head(ss) \o Flatten(Tail(ss))

-----------------------------------------------------------------------------
(* Values of type Optional[str], and the cells of list_str.                *)

\* Python's None as a replacement value.
None == [some |-> FALSE, text |-> <<>>]
Str(s) == [some |-> TRUE, text |-> s]

\* A cell of list_str: a str or None.  orig is history: the offset of the input
\* character the cell was seeded with, -1 for a cell a replace call made;
\* by is history: <<pass, position>> of the construct whose write made the cell.
CharCell(c, k) == [some |-> TRUE, text |-> <<c>>, orig |-> k, by |-> <<"input", k>>]
ReplCell(r, who) == [some |-> r.some, text |-> r.text, orig |-> -1, by |-> who]

\* list(string)
ListOf(s) == [k \in 1..Len(s) |-> CharCell(s[k], k - 1)]

-----------------------------------------------------------------------------
(* Lookup tables and the link formatter.                                   *)

TAG_MAPPING ==
    [k \in {"inc", "increase", "color-blue", "color-orange", "br"} |->
        IF k = "br" THEN <<"\n">> ELSE <<"*", "*">>]

TEMPLATE_MAPPING == [k \in {"star"} |-> <<"BLACK STAR">>]

\* dict.get(key, key): the key itself stands in for a missing entry
GetOrKey(mapping, key) ==
    IF key \in DOMAIN mapping THEN Str(mapping[key]) ELSE Str(<<key>>)

\* dict.get(key): the entry, or None
Get(mapping, key) == IF key \in DOMAIN mapping THEN Str(mapping[key]) ELSE None

\* api.WIKI_BASE, one opaque piece of text
WIKI_BASE == <<"WIKI_BASE/">>

\* urllib.parse.quote of one character: letters, digits and _.-~/ stay, the others
\* are percent-encoded (the input alphabet holds one such character, "?")
QuoteChar(c) == IF c = "?" THEN <<"%", "3", "F">> ELSE <<c>>

\* urlify: quote(s.replace(" ", "_"))
urlify(s) == Flatten([k \in 1..Len(s) |-> QuoteChar(IF s[k] = " " THEN "_" ELSE s[k])])

wiki_link(name) == WIKI_BASE \o urlify(name)

\* discord_link(display) with link = None and from_display = True
discord_link(display) == <<"[">> \o display \o <<"]", "(">> \o wiki_link(display) \o <<")">>

placeholder1 == <<"<", "p", "l", "a", "c", "e", "h", "o", "l", "d", "e", "r", "1", ">">>
placeholder2 == <<"<", "p", "l", "a", "c", "e", "h", "o", "l", "d", "e", "r", "2", ">">>

-----------------------------------------------------------------------------
(* replace, the write primitive.                                           *)

\* [None] * n: the empty list when n <= 0
Nones(n, who) == [k \in 1..Max(n, 0) |-> ReplCell(None, who)]

\* replace: lst[begin:end] = [repl] + [None] * (end - begin - 1), a slice
\* assignment: the slice bounds are clamped to the list, the slice is taken out and
\* the right-hand list put in its place, whatever its length (an empty slice is an
\* insertion point).  who is history: the construct the call is made for.
replace(lst, begin, end, repl, who) ==
    LET b == Min(begin, Len(lst))
        e == Max(b, Min(end, Len(lst)))
    IN  SubSeq(lst, 1, b)
            \o (<<ReplCell(repl, who)>> \o Nones(end - begin - 1, who))
            \o SubSeq(lst, e + 1, Len(lst))

\* A replace call the pass code makes for one construct.
Write(begin, end, repl) == [begin |-> begin, end |-> end, repl |-> repl]

\* The list after the calls ws, made in order on behalf of construct who.
RECURSIVE Apply(_, _, _)
Apply(lst, ws, who) ==
    IF ws = <<>> THEN lst
    ELSE Apply(replace(lst, Head(ws).begin, Head(ws).end, Head(ws).repl, who), Tail(ws), who)

\* The history of those calls: each with the list before and after it.
RECURSIVE Logged(_, _, _)
Logged(lst, ws, who) ==
    IF ws = <<>> THEN <<>>
    ELSE LET after == replace(lst, Head(ws).begin, Head(ws).end, Head(ws).repl, who)
         IN  <<[begin |-> Head(ws).begin, end |-> Head(ws).end, repl |-> Head(ws).repl,
                before |-> lst, after |-> after]>> \o Logged(after, Tail(ws), who)

\* The offsets the spans of the calls ws name.
SpanOffsets(ws) == UNION {ws[k].begin .. (ws[k].end - 1) : k \in 1..Len(ws)}

-----------------------------------------------------------------------------
(* What wikitextparser reports.                                            *)

\* One reported construct.  span_l, span_h: its span; match_l, match_h: the span of
\* its content group relative to span_l, -1 when the group did not take part.
\* bold: isinstance(em, Bold); name: tag.name or template.name; attrs: tag.attrs as
\* a set of <<key, value>>; target: wikilink.target.
Construct(kind, L, H, ml, mh, bold, name, attrs, target) ==
    [kind |-> kind, span_l |-> L, span_h |-> H, match_l |-> ml, match_h |-> mh,
     bold |-> bold, name |-> name, attrs |-> attrs, target |-> target]

\* The widths a delimiter region can have: an opening run, a closing run, a whole
\* self-closing tag.
Widths == 1..MaxDelim

\* Bold and Italic: a run of apostrophes opens, the content is not empty, and the
\* closing run may be missing (the construct then ends with its content:
\* match_h = span_h - span_l).
Emphases(n) ==
    {Construct("em", L, L + o + c + f, o, o + c, b, "", {}, <<>>) :
        L \in 0..n, o \in Widths, c \in 1..n, f \in {0} \cup Widths, b \in BOOLEAN}

\* name and attrs of the tags with contents, and of the self-closing ones.
TagSorts == {<<"b", {}>>, <<"b", {<<"class", "inc">>}>>, <<"b", {<<"class", "zz">>}>>}
VoidTagSorts == {<<"br", {}>>, <<"b", {}>>, <<"br", {<<"class", "inc">>}>>}

\* Tags: <name attrs>contents</name> with both delimiters present, or self-closing.
Tags(n) ==
    {Construct("tag", L, L + o + c + f, o, o + c, FALSE, s[1], s[2], <<>>) :
        L \in 0..n, o \in Widths, c \in 0..n, f \in Widths, s \in TagSorts}
    \cup {Construct("tag", L, L + o, -1, -1, FALSE, s[1], s[2], <<>>) :
        L \in 0..n, o \in Widths, s \in VoidTagSorts}

Targets == {<<"K">>, <<"a", " ", "?">>}

\* Wikilinks: [[target]], or [[target|text]] where group 4 is the text and the
\* opening region holds the brackets, the target and the pipe.
Links(n) ==
    {Construct("link", L, H, -1, -1, FALSE, "", {}, t) :
        L \in 0..n, H \in 0..n, t \in Targets}
    \cup {Construct("link", L, L + o + c + f, o, o + c, FALSE, "", {}, <<"K">>) :
        L \in 0..n, o \in Widths, c \in 0..n, f \in Widths}

Templates(n) ==
    {Construct("tpl", L, H, -1, -1, FALSE, nm, {}, <<>>) :
        L \in 0..n, H \in 0..n, nm \in {"star", "zz"}}

\* The constructs that fit an input of length n; a link or template without a
\* content group has its two delimiters at least.
Shaped(c, n) ==
    /\ c.span_h <= n
    /\ c.kind \in {"link", "tpl"} /\ c.match_l = -1 => c.span_h >= c.span_l + 2

Constructs ==
    [n \in 0..MaxLen |->
        {c \in Emphases(n) \cup Tags(n) \cup Links(n) \cup Templates(n) : Shaped(c, n)}]

\* Where a construct can hold other constructs: its content group, or what lies
\* between its delimiters.
InnerLow(c) == IF c.match_l = -1 THEN c.span_l + 1 ELSE c.span_l + c.match_l
InnerHigh(c) == IF c.match_l = -1 THEN c.span_h - 1 ELSE c.span_l + c.match_h

Inside(c, d) == InnerLow(d) <= c.span_l /\ c.span_h <= InnerHigh(d)
Apart(c, d) == c.span_h <= d.span_l \/ d.span_h <= c.span_l

\* The constructs of one kind, by ascending start.
RECURSIVE ByStart(_)
ByStart(cs) ==
    IF cs = {} THEN <<>>
    ELSE LET c == CHOOSE x \in cs : \A y \in cs : x.span_l <= y.span_l
         IN  <<c>> \o ByStart(cs \ {c})

Kind(cs, kind) == {c \in cs : c.kind = kind}

Parsed(cs) ==
    [ems |-> ByStart(Kind(cs, "em")), tags |-> ByStart(Kind(cs, "tag")),
     links |-> ByStart(Kind(cs, "link")), tpls |-> ByStart(Kind(cs, "tpl"))]

\* c can be reported next to the constructs cs: two constructs lie apart or one inside the other, and two of one kind start
\* at different offsets.
Compatible(cs, c) ==
    /\ c \notin cs
    /\ \A d \in cs : /\ Apart(c, d) \/ Inside(c, d) \/ Inside(d, c)
                     /\ d.kind = c.kind => d.span_l # c.span_l

Range(seq) == {seq[k] : k \in 1..Len(seq)}

\* The constructs a parse holds.
Reported(parsed) ==
    Range(parsed.ems) \cup Range(parsed.tags) \cup Range(parsed.links) \cup Range(parsed.tpls)

\* The input text: the passes never read a character, so one text per length.
Alphabet == <<"a", "b", "c", "d", "e", "f", "g", "h">>
Input(n) == [k \in 1..n |-> Alphabet[((k - 1) % Len(Alphabet)) + 1]]

-----------------------------------------------------------------------------
(* The four passes.                                                        *)

\* for em in wt.get_bolds_and_italics(): the two replace calls
EmphasisWrites(em) ==
    LET repl == IF em.bold THEN Str(<<"*", "*">>) ELSE Str(<<"_">>)
    IN  <<Write(em.span_l, em.span_l + em.match_l, repl),
          Write(em.span_l + em.match_h, em.span_h, repl)>>

HasKey(attrs, key) == \E kv \in attrs : kv[1] = key
Item(attrs, key) == (CHOOSE kv \in attrs : kv[1] = key)[2]

\* tag.attrs["class"] raises KeyError for a tag without that attribute
TagRaises(tag) == tag.match_l # -1 /\ ~HasKey(tag.attrs, "class")

\* for tag in wt.get_tags(): the replace calls of a tag that does not raise
TagWrites(tag) ==
    IF tag.match_l # -1
    THEN LET repl == Get(TAG_MAPPING, Item(tag.attrs, "class"))
         IN  <<Write(tag.span_l, tag.span_l + tag.match_l, repl),
               Write(tag.span_l + tag.match_h, tag.span_h, repl)>>
    ELSE <<Write(tag.span_l, tag.span_h, Get(TAG_MAPPING, tag.name))>>

\* x.wikilinks, x.templates of a construct x: the other constructs of that kind
\* within its span
Within(all, x) ==
    {k \in 1..Len(all) :
        all[k] # x /\ x.span_l <= all[k].span_l /\ all[k].span_h <= x.span_h}

\* for wikilink in wt.wikilinks
LinkWrites(parsed, wikilink) ==
    IF Within(parsed.links, wikilink) # {}
    THEN <<Write(wikilink.span_l, wikilink.span_h, Str(placeholder1))>>
    ELSE IF wikilink.match_l # -1
    THEN <<Write(wikilink.span_l, wikilink.span_l + wikilink.match_l, Str(placeholder2)),
           Write(wikilink.span_l + wikilink.match_h, wikilink.span_h, None)>>
    ELSE <<Write(wikilink.span_l, wikilink.span_h, Str(discord_link(wikilink.target)))>>

\* for template in wt.templates
TemplateWrites(parsed, template) ==
    IF Within(parsed.tpls, template) = {}
    THEN <<Write(template.span_l, template.span_h, Get(TEMPLATE_MAPPING, template.name))>>
    ELSE <<>>

\* A join that tests the cell's truth and starts one cell late.
JoinFromSecond(lst) ==
    Flatten([k \in 1..(Len(lst) - 1) |-> IF lst[k + 1].some THEN lst[k + 1].text ELSE <<>>])

\* "".join(c for c in list_str if c is not None)
Join(lst) == Flatten([k \in 1..Len(lst) |-> IF lst[k].some THEN lst[k].text ELSE <<>>])

PassOrder == <<"emphasis", "tags", "links", "templates">>

Items(parsed, pass) ==
    CASE pass = "emphasis" -> parsed.ems
      [] pass = "tags" -> parsed.tags
      [] pass = "links" -> parsed.links
      [] pass = "templates" -> parsed.tpls

\* The first loop from PassOrder[p] on whose list is not empty, else the join.
RECURSIVE Enter(_, _)
Enter(parsed, p) ==
    IF p > Len(PassOrder) THEN <<"compact", 1>>
    ELSE IF Len(Items(parsed, PassOrder[p])) > 0 THEN <<PassOrder[p], 1>>
    ELSE Enter(parsed, p + 1)

\* Where control is after iteration k of loop PassOrder[p].
After(p, k) ==
    IF k < Len(Items(wt, PassOrder[p])) THEN <<PassOrder[p], k + 1>> ELSE Enter(wt, p + 1)

\* The history of a step that is no loop iteration.
NoLog == [who |-> <<"none", 0>>, before |-> <<>>, calls |-> <<>>]

\* parse_wiki_str is called with a string.
Init ==
    \E n \in 0..MaxLen :
        /\ string = Input(n)
        /\ wt = Parsed({})
        /\ list_str = <<>>
        /\ pc = "parse"
        /\ i = 1
        /\ result = <<>>
        /\ log = NoLog
        /\ covered = {}

\* wikitextparser finds one more construct in the string, up to m of them.
ReportUpTo(m) ==
    /\ pc = "parse"
    /\ Cardinality(Reported(wt)) < m
    /\ \E c \in Constructs[Len(string)] :
        /\ Compatible(Reported(wt), c)
        /\ wt' = Parsed(Reported(wt) \cup {c})
    /\ UNCHANGED <<string, list_str, pc, i, result, log, covered>>

Report == ReportUpTo(MaxConstructs)

\* The same, for the inputs that hold one construct at most.
ReportOne == ReportUpTo(1)

\* wt = wikitextparser.parse(string); list_str = list(string); the first loop starts
Parse ==
    /\ pc = "parse"
    /\ list_str' = ListOf(string)
    /\ pc' = Enter(wt, 1)[1]
    /\ log' = NoLog
    /\ UNCHANGED <<string, wt, i, result, covered>>

\* One iteration of loop PassOrder[p] making the calls ws.
Iterate(p, ws) ==
    /\ list_str' = Apply(list_str, ws, <<PassOrder[p], i>>)
    /\ log' = [who |-> <<PassOrder[p], i>>, before |-> list_str,
               calls |-> Logged(list_str, ws, <<PassOrder[p], i>>)]
    /\ covered' = covered \cup SpanOffsets(ws)
    /\ pc' = After(p, i)[1]
    /\ i' = After(p, i)[2]
    /\ UNCHANGED <<string, wt, result>>

EmphasisStep ==
    /\ pc = "emphasis"
    /\ Iterate(1, EmphasisWrites(wt.ems[i]))

TagStep ==
    /\ pc = "tags"
    /\ IF TagRaises(wt.tags[i])
       THEN /\ pc' = "error"
            /\ log' = [who |-> <<"tags", i>>, before |-> list_str, calls |-> <<>>]
            /\ UNCHANGED <<string, wt, list_str, i, result, covered>>
       ELSE Iterate(2, TagWrites(wt.tags[i]))

LinkStep ==
    /\ pc = "links"
    /\ Iterate(3, LinkWrites(wt, wt.links[i]))

TemplateStep ==
    /\ pc = "templates"
    /\ Iterate(4, TemplateWrites(wt, wt.tpls[i]))

Compact ==
    /\ pc = "compact"
    /\ result' = Join(list_str)
    /\ pc' = "done"
    /\ log' = NoLog
    /\ UNCHANGED <<string, wt, list_str, i, covered>>

Next == Report \/ Parse \/ EmphasisStep \/ TagStep \/ LinkStep \/ TemplateStep \/ Compact

Spec == Init /\ [][Next]_vars

\* parse_wiki_str on the inputs that hold one construct at most.
NextSingle == ReportOne \/ Parse \/ EmphasisStep \/ TagStep \/ LinkStep \/ TemplateStep \/ Compact

SpecSingle == Init /\ [][NextSingle]_vars

-----------------------------------------------------------------------------
(* Properties.                                                             *)

\* The construct of the loop iteration the history log is about.
Logged_c == Items(wt, log.who[1])[log.who[2]]

\* The only construct of the input, when it spans the whole input.
IsWholeInput(c) == Reported(wt) = {c} /\ c.span_l = 0 /\ c.span_h = Len(string)

\* The original characters still in the list, by their offsets, in list order.
Originals(lst) == SelectSeq([k \in 1..Len(lst) |-> lst[k].orig], LAMBDA o : o # -1)

\* C1: parse_wiki_str is total: whatever constructs the parser reports, a tag with
\* a content span and no class attribute included, no pass ends in an error.
C1_Total == pc # "error"

\* C8: when the parser reports no construct at all, no cell of the list is written
\* and the returned string equals the input character for character.
C8_Passthrough ==
    Reported(wt) = {} /\ pc \in {"compact", "done"} =>
        /\ list_str = ListOf(string)
        /\ covered = {}
        /\ pc = "done" => result = string

\* A call of parse_wiki_str has returned for an input of several characters in
\* which the parser found nothing.
C8_Witness == pc = "done" /\ Reported(wt) = {} /\ Len(string) >= 2

\* C9: every replace call with 0 <= begin <= end <= len(input), the empty span
\* included, keeps one cell per offset (the list is as long as the input), makes the
\* cell at begin the replacement (None for the delete value), makes every other
\* cell of [begin, end) None and leaves every cell outside [begin, end) as it was,
\* at the same offset.
C9_OverlayWrite ==
    \A n \in 1..Len(log.calls) :
        LET call == log.calls[n]
        IN  /\ 0 <= call.begin /\ call.begin <= call.end /\ call.end <= Len(string)
            /\ Len(call.before) = Len(string)
            =>
              /\ Len(call.after) = Len(string)
              /\ \A k \in 0..(Len(string) - 1) :
                    IF k < call.begin \/ k >= call.end
                    THEN call.after[k + 1] = call.before[k + 1]
                    ELSE IF k = call.begin
                    THEN /\ call.after[k + 1].some = call.repl.some
                         /\ call.after[k + 1].text = call.repl.text
                         /\ call.after[k + 1].orig = -1
                    ELSE ~call.after[k + 1].some

\* The key C10 names for a tag: its class attribute when it has one, else its name.
TagKey(tag) == IF HasKey(tag.attrs, "class") THEN Item(tag.attrs, "class") ELSE tag.name

\* C10: for every tag, self-closing or with a content span, the tag pass looks up
\* the class attribute value when the tag has one and the tag's name otherwise, and
\* writes the tag table's entry for that key.
C10_TagIdentifier ==
    log.who[1] = "tags" =>
        /\ pc # "error"
        /\ Len(log.calls) > 0
        /\ \A n \in 1..Len(log.calls) :
              log.calls[n].repl = Get(TAG_MAPPING, TagKey(Logged_c))

\* The replace calls the pass code makes for construct c of loop pass.
WritesOf(pass, c) ==
    CASE pass = "emphasis" -> EmphasisWrites(c)
      [] pass = "tags" -> IF TagRaises(c) THEN <<>> ELSE TagWrites(c)
      [] pass = "links" -> LinkWrites(wt, c)
      [] pass = "templates" -> TemplateWrites(wt, c)

\* The cells of lst that hold a replacement written for construct who.
HeadsBy(lst, who) == {k \in 1..Len(lst) : lst[k].by = who /\ lst[k].some}

\* The offsets whose input character is still in lst.
Kept(lst) == {lst[k].orig : k \in 1..Len(lst)} \ {-1}

\* c lies within the outer span of another construct, in one of the nestings C4
\* names: a tag around an emphasis run, a template around a link, a link around a
\* link or an emphasis run.
Nested(c) ==
    \E d \in Reported(wt) :
        /\ d # c /\ d.span_l <= c.span_l /\ c.span_h <= d.span_h
        /\ \/ d.kind = "tag" /\ c.kind = "em"
           \/ d.kind = "tpl" /\ c.kind = "link"
           \/ d.kind = "link" /\ c.kind \in {"link", "em"}

\* Template t lies within another template.
NestedTemplate(t) == \E k \in 1..Len(wt.tpls) : \E n \in Within(wt.tpls, wt.tpls[k]) : wt.tpls[n] = t

\* C2: the returned string is, in ascending original offset, the original
\* characters that no write covered and the inserted replacements: the surviving
\* original characters keep their order, none is there twice, and they are the
\* characters at the offsets outside every written span.
C2_LengthOrder ==
    pc = "done" =>
        /\ \A j \in 1..Len(Originals(list_str)) : \A k \in 1..Len(Originals(list_str)) :
              j < k => Originals(list_str)[j] < Originals(list_str)[k]
        /\ Kept(list_str) = (0..(Len(string) - 1)) \ covered
        /\ result = Flatten([k \in 1..Len(list_str) |->
                        IF list_str[k].orig # -1 THEN <<string[list_str[k].orig + 1]>>
                        ELSE list_str[k].text])

\* The token C3 names for a construct with a content span.
BoundaryToken(c) ==
    IF c.kind = "em" THEN (IF c.bold THEN <<"*", "*">> ELSE <<"_">>)
    ELSE Get(TAG_MAPPING, TagKey(c)).text

\* C3: for an input that is one emphasis run, or one tag with a content span, the
\* pass writes the construct's token over the opening region and over the closing
\* region, leaves every content cell the original character, and the returned
\* string is token + content + token.
C3_BoundaryOnly ==
    \A c \in Reported(wt) :
        /\ IsWholeInput(c) /\ c.kind \in {"em", "tag"} /\ c.match_l # -1
        /\ pc \in {"compact", "done", "error"}
        =>
          /\ pc # "error"
          /\ \A k \in c.match_l .. (c.match_h - 1) : k \in Kept(list_str)
          /\ pc = "done" =>
                result = BoundaryToken(c) \o SubSeq(string, c.match_l + 1, c.match_h)
                            \o BoundaryToken(c)

\* C4: whenever a construct lies within the outer span of another construct (a tag
\* around an emphasis run, a template around a link, a link around a link or an
\* emphasis run), every replacement written for it is still in the list when the
\* join starts: no later write has overwritten it.
C4_InnerSurvives ==
    pc = "compact" =>
        \A p \in 1..Len(PassOrder) : \A k \in 1..Len(Items(wt, PassOrder[p])) :
            LET c == Items(wt, PassOrder[p])[k]
                heads == {n \in 1..Len(WritesOf(PassOrder[p], c)) :
                            WritesOf(PassOrder[p], c)[n].repl.some}
            IN  Nested(c) =>
                    Cardinality(HeadsBy(list_str, <<PassOrder[p], k>>)) = Cardinality(heads)

LinksDone ==
    /\ Len(wt.links) > 0
    /\ \/ pc = "templates" /\ i = 1
       \/ pc = "compact" /\ Len(wt.tpls) = 0

\* C6: once the link pass has processed every link, the cells of the span of a
\* link that holds another link give the placeholder token and nothing else.
C6_NestedLinkPlaceholder ==
    LinksDone =>
        \A k \in 1..Len(wt.links) :
            Within(wt.links, wt.links[k]) # {} =>
                Join(SubSeq(list_str, wt.links[k].span_l + 1, wt.links[k].span_h))
                    = placeholder1

\* The offsets of template t that belong to no template within it: its opening
\* delimiter, name, pipe and closing delimiter.
OwnOffsets(t) ==
    {o \in t.span_l .. (t.span_h - 1) :
        \A k \in Within(wt.tpls, t) : o < wt.tpls[k].span_l \/ o >= wt.tpls[k].span_h}

\* C7: the template pass makes no write for a template that holds another template,
\* and its own cells stay original characters through the pass; a nested template
\* that holds no template is replaced across its own span: none of its characters
\* is left, and its cell at the start holds the template table's entry (None when
\* there is none).
C7_NestedTemplate ==
    log.who[1] = "templates" =>
        /\ Within(wt.tpls, Logged_c) # {} => list_str = log.before
        /\ \A k \in 1..Len(wt.tpls) :
              Within(wt.tpls, wt.tpls[k]) # {} =>
                  OwnOffsets(wt.tpls[k]) \cap Kept(log.before) \subseteq Kept(list_str)
        /\ Within(wt.tpls, Logged_c) = {} /\ NestedTemplate(Logged_c) =>
              /\ Kept(list_str) \cap (Logged_c.span_l .. (Logged_c.span_h - 1)) = {}
              /\ \E k \in 1..Len(list_str) :
                    /\ list_str[k].by = log.who
                    /\ list_str[k].some = Get(TEMPLATE_MAPPING, Logged_c.name).some
                    /\ list_str[k].text = Get(TEMPLATE_MAPPING, Logged_c.name).text

====
